---- MODULE Spec2Model ----
(***************************************************************************)
(* Escalation engine of the incident-management backend.                   *)
(*                                                                         *)
(* Two evaluators share one store (incident, assignments, escalation       *)
(* events): EscalationService.check_and_escalate_incident (manual trigger  *)
(* and the in-app worker sweep) and EscalationProcessor (the cron script). *)
(* Every read-then-commit window of the store is an interleaving point.    *)
(* ORM attribute access (incident.team_id, event.event_metadata) is taken  *)
(* to resolve to the column of that name.                                  *)
(***************************************************************************)
EXTENDS Integers, Sequences, FiniteSets, TLC

\* ---------------------------------------------------------------- bounds
MaxCalls == 2        \* evaluation calls started in one behaviour
MaxApiCalls == 1     \* status-changing API calls in one behaviour

Procs == {1, 2}                  \* independent evaluator flows
Times == {0, 5, 10}              \* clock readings (minutes since creation)
Delays == {0, 10}                \* delay_minutes values of the step catalogue
Users == {1, 2, 3}
NoTeam == 0                      \* incident.team_id is None
TeamId == 1

ApiUsers == {1, 2}                \* users that call the incident endpoints

\* ---------------------------------------------------------- vocabulary
TerminalStatuses == {"resolved", "snoozed"}

IncidentStatuses == {"triggered", "acknowledged", "resolved", "snoozed"}

Kinds == {"service", "processor"}

\* users of the directory: id -> role, team, active flag
UserTable ==
  (1 :> [role |-> "team_lead", team_id |-> TeamId, is_active |-> TRUE]) @@
  (2 :> [role |-> "manager", team_id |-> TeamId, is_active |-> TRUE]) @@
  (3 :> [role |-> "manager", team_id |-> NoTeam, is_active |-> TRUE])

RoleKeywords == {"team_lead", "manager", "vp", "cto", "oncall_engineer"}

\* str.lower() on the strings that occur in conditions and incidents
Lower(s) ==
  CASE s = "HIGH" -> "high"
    [] s = "High" -> "high"
    [] s = "LOW" -> "low"
    [] s = "API" -> "api"
    [] s = "Api" -> "api"
    [] s = "Resolved" -> "resolved"
    [] s = "RESOLVED" -> "resolved"
    [] OTHER -> s

SeqToSet(s) == {s[i] : i \in DOMAIN s}

\* a condition value: absent key, a single scalar, or a list
NoCond == [present |-> FALSE, is_scalar |-> FALSE, items |-> <<>>]
Scalar(v) == [present |-> TRUE, is_scalar |-> TRUE, items |-> <<v>>]
ListOf(vs) == [present |-> TRUE, is_scalar |-> FALSE, items |-> vs]

NoConditions == [severity |-> NoCond, service |-> NoCond, team_id |-> NoCond]

\* -------------------------------------------------------- policy matching
\* one accepting key is enough
PolicyMatchesAnyKey(policy, inc) ==
  LET c == policy.conditions
      severity_ok == c.severity.present /\
                     Lower(inc.severity) \in {Lower(x) : x \in SeqToSet(c.severity.items)}
      service_ok == c.service.present /\ inc.service \in SeqToSet(c.service.items)
      team_ok == c.team_id.present /\ inc.team_id \in SeqToSet(c.team_id.items)
  IN severity_ok \/ service_ok \/ team_ok

PolicyMatchesIncident(policy, inc) ==
  LET c == policy.conditions
      severity_ok == IF c.severity.present
                     THEN Lower(inc.severity) \in {Lower(x) : x \in SeqToSet(c.severity.items)}
                     ELSE TRUE
      service_ok == IF c.service.present
                    THEN inc.service \in SeqToSet(c.service.items)
                    ELSE TRUE
      team_ok == IF c.team_id.present
                 THEN inc.team_id \in SeqToSet(c.team_id.items)
                 ELSE TRUE
  IN severity_ok /\ service_ok /\ team_ok

RECURSIVE FilterSeq(_, _, _)
FilterSeq(s, inc, acc) ==
  IF s = <<>> THEN acc
  ELSE FilterSeq(Tail(s), inc,
                 IF Head(s).is_active /\ PolicyMatchesIncident(Head(s), inc)
                 THEN Append(acc, Head(s).id) ELSE acc)

\* ids of the active policies that match, in store order
GetMatchingPolicies(pols, inc) == FilterSeq(pols, inc, <<>>)

\* ------------------------------------------------------ target resolution
UserIdOf(target) ==
  CASE target = "1" -> 1
    [] target = "2" -> 2
    [] target = "3" -> 3
    [] OTHER -> 0

RECURSIVE SetToSortedSeq(_)
SetToSortedSeq(S) ==
  IF S = {} THEN <<>>
  ELSE LET m == CHOOSE x \in S : \A y \in S : x <= y
       IN <<m>> \o SetToSortedSeq(S \ {m})

GetUsersByRoleAndTeam(role, team_id) ==
  IF role \notin RoleKeywords THEN <<>>
  ELSE SetToSortedSeq({u \in Users : /\ UserTable[u].role = role
                                     /\ UserTable[u].team_id = team_id
                                     /\ UserTable[u].is_active})

\* users a recipient descriptor resolves to, as the list the code iterates
GetEscalationTargets(inc, assigned, target) ==
  IF inc.team_id = NoTeam THEN <<>>
  ELSE IF target = "assignees" THEN assigned
  ELSE IF target \in RoleKeywords THEN GetUsersByRoleAndTeam(target, inc.team_id)
  ELSE IF UserIdOf(target) \in Users THEN <<UserIdOf(target)>>
  ELSE <<>>

\* ----------------------------------------------------------------- actions
NotifyAction(recipients) ==
  [type |-> "notify", has_recipients |-> TRUE, recipients |-> recipients,
   target |-> "", status |-> ""]

NotifyTarget(target) ==
  [type |-> "notify", has_recipients |-> FALSE, recipients |-> <<>>,
   target |-> target, status |-> ""]

AssignAction(target) ==
  [type |-> "assign", has_recipients |-> FALSE, recipients |-> <<>>,
   target |-> target, status |-> ""]

StatusChangeAction(status) ==
  [type |-> "status_change", has_recipients |-> FALSE, recipients |-> <<>>,
   target |-> "", status |-> status]

\* the alias of status_change
ChangeStatusAction(status) ==
  [type |-> "change_status", has_recipients |-> FALSE, recipients |-> <<>>,
   target |-> "", status |-> status]

\* action_type in ("status_change", "change_status")
IsStatusChange(type) == type \in {"status_change", "change_status"}

\* a notify_<role> action: the role is the suffix of the type
RoleNotifyAction(role) ==
  [type |-> IF role = "manager" THEN "notify_manager" ELSE "notify_team_lead",
   has_recipients |-> FALSE, recipients |-> <<>>, target |-> "", status |-> ""]

\* action_type.startswith("notify_")
IsRoleNotify(type) == type \in {"notify_manager", "notify_team_lead"}

\* action_type.replace("notify_", "")
RoleOfType(type) ==
  CASE type = "notify_manager" -> "manager"
    [] type = "notify_team_lead" -> "team_lead"
    [] OTHER -> ""

\* the recipients list a notify action iterates over
Recipients(action) ==
  LET r == IF ~action.has_recipients /\ action.target # ""
           THEN <<action.target>> ELSE action.recipients
  IN IF r = <<>> THEN <<"assignees">> ELSE r

RECURSIVE ResolveAll(_, _, _)
ResolveAll(inc, assigned, recipients) ==
  IF recipients = <<>> THEN <<>>
  ELSE GetEscalationTargets(inc, assigned, Head(recipients))
       \o ResolveAll(inc, assigned, Tail(recipients))

\* only the lower-case name selects an enum member
StatusEnumExact(status) == IF status \in IncidentStatuses THEN status ELSE ""

\* IncidentStatus[status.upper()]: the enum member, or "" on KeyError
StatusEnum(status) ==
  CASE status \in {"resolved", "RESOLVED", "Resolved"} -> "resolved"
    [] status \in {"acknowledged", "ACKNOWLEDGED"} -> "acknowledged"
    [] status \in {"triggered", "TRIGGERED"} -> "triggered"
    [] status \in {"snoozed", "SNOOZED"} -> "snoozed"
    [] OTHER -> ""

\* ---------------------------------------------------------- step selection
\* every step counts as due
IsDueAlways(incident_age, step) == TRUE

\* incident_age >= timedelta(minutes=delay_minutes)
IsDue(incident_age, step) == incident_age >= step.delay_minutes

\* nothing is selected once a step was processed in the call
GetCurrentEscalationStepOnce(policy, processed_steps, incident_age) ==
  LET due == {i \in 1..Len(policy.steps) : IsDue(incident_age, policy.steps[i])}
  IN IF due = {} \/ processed_steps # {} THEN -1
     ELSE (CHOOSE i \in due : \A j \in due : i <= j) - 1

\* 0-based index of the first step not in processed_steps that is due; -1 for None
GetCurrentEscalationStep(policy, processed_steps, incident_age) ==
  LET due == {i \in 1..Len(policy.steps) :
                /\ (i - 1) \notin processed_steps
                /\ IsDue(incident_age, policy.steps[i])}
  IN IF due = {} THEN -1 ELSE (CHOOSE i \in due : \A j \in due : i <= j) - 1

\* ------------------------------------------------------------------ state
VARIABLES
  now,          \* datetime.now() - incident.created_at, in minutes
  incident,     \* the incidents row: status, severity, service, team_id
  assignments,  \* incident_assignments rows of the incident (user ids)
  policies,     \* escalation_policies rows
  events,       \* escalation_events rows, events[i].id = i
  sent,         \* send_notification calls per <<policy_id, step, user>>
  procs,        \* per evaluator flow: position and locals of the running call
  calls,        \* evaluation calls started
  apiCalls,     \* status-changing API calls made
  unawaited,    \* evaluation coroutines created and never awaited
  sweep,        \* the periodic sweep over the incidents table
  trigger,      \* the manual escalation request being served and its response
  authoring     \* the last policy create/update request and its response

vars == <<now, incident, assignments, policies, events, sent, procs, calls, apiCalls,
          unawaited, sweep, trigger, authoring>>

\* no manual trigger request and no policy request has been made
NoTrigger == [phase |-> "off", incident_id |-> 0, current_user |-> 0,
              is_superuser |-> FALSE, outcome |-> "", status_code |-> 0, id |-> 0]

NoRequest == [op |-> "", steps_set |-> FALSE, steps |-> <<>>, status_code |-> 0]

\* the sweep of a store in which no sweep takes place
NoSweep == [phase |-> "off", statuses |-> <<>>, active |-> {}, queue |-> <<>>,
            evaluated |-> {}, failed |-> {}]

PolicyIds == {1, 2}
StepIndexes == {0, 1}
Tuples == PolicyIds \X StepIndexes \X Users

IdleProc ==
  [kind |-> "service", pc |-> "idle", policies |-> <<>>, policy |-> 0,
   processed_steps |-> {}, step_index |-> -1, event |-> 0, action |-> 0,
   target_users |-> {}, user_id |-> 0]

\* ------------------------------------------------------- policy catalogue
ActionChoices ==
  { <<NotifyAction(<<"team_lead", "manager">>), ChangeStatusAction("closed")>>,
    <<NotifyTarget("assignees"), StatusChangeAction("Resolved")>>,
    <<AssignAction("1"), NotifyTarget("1")>>,
    <<RoleNotifyAction("manager"), NotifyTarget("manager")>> }

StepChoices == {[delay_minutes |-> d, actions |-> a] : d \in Delays, a \in ActionChoices}

SecondStepChoices ==
  {[delay_minutes |-> d, actions |-> <<NotifyTarget("manager")>>] : d \in Delays}

StepLists ==
  {<<s>> : s \in StepChoices} \cup
  {l \in {<<s, t>> : s \in StepChoices, t \in SecondStepChoices} :
     \/ l[1].delay_minutes = 0
     \/ l[2].delay_minutes = 0 /\ IsRoleNotify(l[1].actions[1].type)}

SecondPolicySteps == <<[delay_minutes |-> 0, actions |-> <<NotifyTarget("manager")>>]>>

LowOnly == [NoConditions EXCEPT !.severity = ListOf(<<"low">>)]

HighApi == [NoConditions EXCEPT !.severity = ListOf(<<"HIGH">>), !.service = Scalar("api")]

\* policy 1 matches the incident and takes its steps from the catalogue;
\* policy 2 has one step and is matching or inactive
Policy1(steps) == [id |-> 1, is_active |-> TRUE, conditions |-> HighApi, steps |-> steps]

Policy2(is_active, conditions) ==
  [id |-> 2, is_active |-> is_active, conditions |-> conditions, steps |-> SecondPolicySteps]

SecondPolicies == {Policy2(TRUE, NoConditions), Policy2(FALSE, NoConditions)}

PolicySets == {<<Policy1(st), p2>> : st \in StepLists, p2 \in SecondPolicies}

SmallPolicySets ==
  {<<Policy1(<<s>>), p2>> : s \in StepChoices,
                            p2 \in {Policy2(TRUE, NoConditions), Policy2(FALSE, NoConditions)}}

TheIncident(team_id) ==
  [status |-> "triggered", severity |-> "high", service |-> "api", team_id |-> team_id]

InitWith(policySets, teams) ==
  /\ now = 0
  /\ incident \in {TheIncident(t) : t \in teams}
  /\ assignments = <<2>>
  /\ policies \in policySets
  /\ events = <<>>
  /\ sent = [t \in Tuples |-> 0]
  /\ procs = [p \in Procs |-> IdleProc]
  /\ calls = 0
  /\ apiCalls = 0
  /\ unawaited = 0
  /\ sweep = NoSweep
  /\ trigger = NoTrigger
  /\ authoring = NoRequest

\* ------------------------------------------------------------------- Init
Init == InitWith(SmallPolicySets, {TeamId})

InitSeq == InitWith(PolicySets, {TeamId, NoTeam})

\* ---------------------------------------------------------- event ledger
\* steps with an event for the incident, whatever the policy
GetProcessedEscalationStepsAnyPolicy(evs, policy_id) ==
  {evs[i].step : i \in DOMAIN evs}

\* steps with any event for the incident/policy pair, whatever its status
GetProcessedEscalationSteps(evs, policy_id) ==
  {evs[i].step : i \in {j \in DOMAIN evs : evs[j].policy_id = policy_id}}

\* user ids recorded in target_users of the events of the step
GetNotifiedUsersForStep(evs, policy_id, step) ==
  UNION {evs[i].target_users :
           i \in {j \in DOMAIN evs : /\ evs[j].policy_id = policy_id
                                     /\ evs[j].step = step}}

ShouldNotifyUser(user_id, policy_id, step) ==
  user_id \notin GetNotifiedUsersForStep(events, policy_id, step)

\* the row is inserted with status in_progress
PendingEventInProgress(policy_id, step) ==
  [id |-> Len(events) + 1, incident_id |-> 1, policy_id |-> policy_id, step |-> step,
   status |-> "in_progress", target_users |-> {}, error |-> "", completed_at |-> FALSE]

\* the row EscalationEventCreate(status=PENDING) inserts
PendingEvent(policy_id, step) ==
  [id |-> Len(events) + 1, incident_id |-> 1, policy_id |-> policy_id, step |-> step,
   status |-> "pending", target_users |-> {}, error |-> "", completed_at |-> FALSE]

\* CRUDEscalationEvent.mark_as_completed; completed_at: the column is set
MarkAsCompleted(event) == [event EXCEPT !.status = "completed", !.completed_at = TRUE]

\* only the error text is stored
MarkAsFailedErrorOnly(event, error) == [event EXCEPT !.error = error]

\* CRUDEscalationEvent.mark_as_failed
MarkAsFailed(event, error) ==
  [event EXCEPT !.status = "failed", !.error = error, !.completed_at = TRUE]

\* ------------------------------------------------------- control of a call
\* the step loop of process_policy_escalations: the first unprocessed step
\* that is due, steps that are not ready being passed over; -1 when none
ProcessorDueStep(policy, processed_steps, incident_age) ==
  LET ready == {i \in 1..Len(policy.steps) :
                  /\ (i - 1) \notin processed_steps
                  /\ IsDue(incident_age, policy.steps[i])}
  IN IF ready = {} THEN -1 ELSE (CHOOSE i \in ready : \A j \in ready : i <= j) - 1

\* the flow moves through the remaining matching policies to the first one
\* that has a step to process and stands before the insert of its event; the
\* service starts each policy with an empty processed_steps, the processor
\* with the steps read from the ledger; the call is over when none is left
RECURSIVE EnterPolicies(_, _, _, _)
EnterPolicies(pr, pols, evs, age) ==
  IF pols = <<>> THEN [pr EXCEPT !.pc = "idle", !.policies = <<>>, !.policy = 0,
                                 !.processed_steps = {}, !.step_index = -1,
                                 !.event = 0, !.action = 0, !.target_users = {}]
  ELSE LET policy == policies[Head(pols)]
           processed == IF pr.kind = "service" THEN {}
                        ELSE GetProcessedEscalationSteps(evs, policy.id)
           idx == IF pr.kind = "service"
                  THEN GetCurrentEscalationStep(policy, processed, age)
                  ELSE ProcessorDueStep(policy, processed, age)
       IN IF idx = -1 THEN EnterPolicies(pr, Tail(pols), evs, age)
          ELSE [pr EXCEPT !.pc = "create", !.policies = Tail(pols), !.policy = policy.id,
                          !.processed_steps = processed, !.step_index = idx,
                          !.event = 0, !.action = 0, !.target_users = {}]

\* the step that was run is not recorded
AddProcessedNothing(processed_steps, step_index) == processed_steps

\* processed_steps.add(step_index) at the end of the loop body
AddProcessed(processed_steps, step_index) == processed_steps \cup {step_index}

\* every evaluator goes on to the next due step of the policy
ContinuesInPolicyAlways(kind) == TRUE

\* after a step the service loops (while True) and selects again in the same
\* policy; the processor breaks out of its step loop
ContinuesInPolicy(kind) == kind = "service"

\* the next step is run on the event of the step before it, without an insert
AfterStepReusingEvent(pr, evs, age) ==
  LET processed == AddProcessed(pr.processed_steps, pr.step_index)
      idx == GetCurrentEscalationStep(policies[pr.policy], processed, age)
      next == IF ContinuesInPolicy(pr.kind) /\ idx # -1
              THEN [pr EXCEPT !.pc = "create", !.processed_steps = processed,
                              !.step_index = idx]
              ELSE EnterPolicies(pr, pr.policies, evs, age)
  IN IF next.pc = "create"
     THEN [next EXCEPT !.pc = "actions", !.event = pr.event, !.action = 1,
                       !.target_users = {}]
     ELSE next

\* the step the flow ran is over: the service adds it to processed_steps and
\* selects again in the same policy, the processor breaks out of its step loop
AfterStep(pr, evs, age) ==
  LET processed == AddProcessed(pr.processed_steps, pr.step_index)
      idx == GetCurrentEscalationStep(policies[pr.policy], processed, age)
  IN IF ContinuesInPolicy(pr.kind) /\ idx # -1
     THEN [pr EXCEPT !.pc = "create", !.processed_steps = processed, !.step_index = idx,
                     !.event = 0, !.action = 0, !.target_users = {}]
     ELSE EnterPolicies(pr, pr.policies, evs, age)

\* the actions of the step are run although no event was inserted
AfterCreateFailureRunningActions(pr, evs, age) ==
  [pr EXCEPT !.pc = "actions", !.event = 0, !.action = 1, !.target_users = {}]

\* the insert of the event failed: both evaluators return from the policy
AfterCreateFailure(pr, evs, age) == EnterPolicies(pr, pr.policies, evs, age)

\* the locals after an action returned normally
AfterAction(pr, users, nactions) ==
  [pr EXCEPT !.target_users = @ \cup SeqToSet(users),
             !.action = @ + 1,
             !.pc = IF pr.action + 1 > nactions THEN "complete" ELSE "actions"]

CurrentPolicy(p) == policies[procs[p].policy]

CurrentStep(p) == CurrentPolicy(p).steps[procs[p].step_index + 1]

CurrentAction(p) == CurrentStep(p).actions[procs[p].action]

CountIn(seq, k, u) == Cardinality({i \in 1..k : seq[i] = u})

\* str(e) of the exceptions an action raises
DispatchError == "notification dispatch failed"

AwaitError == "object can't be used in 'await' expression"

\* the exception leaves the call: the remaining policies are abandoned
FailStepPropagating(p, error) ==
  /\ events' = [events EXCEPT ![procs[p].event] = MarkAsFailed(@, error)]
  /\ procs' = [procs EXCEPT ![p] = [IdleProc EXCEPT !.kind = procs[p].kind]]

\* the except branch of the step: the event is marked failed with str(e)
FailStep(p, error) ==
  /\ events' = [events EXCEPT ![procs[p].event] = MarkAsFailed(@, error)]
  /\ procs' = [procs EXCEPT ![p] = AfterStep(@, events, now)]

\* only resolved incidents are excluded
IsSkippedStatusResolvedOnly(status) == status = "resolved"

\* check_and_escalate_incident returns at once on these statuses
IsSkippedStatus(status) == status \in TerminalStatuses

\* the filter of get_escalatable_incidents
IsEscalatable(status) == status \in {"triggered", "acknowledged"}

Evaluates(kind, status) ==
  IF kind = "service" THEN ~IsSkippedStatus(status) ELSE IsEscalatable(status)

\* ---------------------------------------------------------------- actions
\* an evaluation call starts: the status gate, then the matching active
\* policies; a call on an excluded status returns at once ("skipped")
Begin(p, kind) ==
  /\ procs[p].pc \in {"idle", "skipped"}
  /\ calls < MaxCalls
  /\ calls' = calls + 1
  /\ procs' = [procs EXCEPT ![p] =
       IF Evaluates(kind, incident.status)
       THEN [IdleProc EXCEPT !.kind = kind, !.pc = "matched",
                             !.policies = GetMatchingPolicies(policies, incident)]
       ELSE [IdleProc EXCEPT !.kind = kind, !.pc = "skipped"]]
  /\ UNCHANGED <<now, incident, assignments, policies, events, sent, apiCalls>>
  /\ UNCHANGED <<unawaited, sweep, trigger, authoring>>

\* the loop over the matching policies is entered
StartPolicies(p) ==
  /\ procs[p].pc = "matched"
  /\ procs' = [procs EXCEPT ![p] = EnterPolicies(@, @.policies, events, now)]
  /\ UNCHANGED <<now, incident, assignments, policies, events, sent, calls, apiCalls>>
  /\ UNCHANGED <<unawaited, sweep, trigger, authoring>>

\* the pending event row is inserted and committed
CreateEvent(p) ==
  /\ procs[p].pc = "create"
  /\ events' = Append(events, PendingEvent(procs[p].policy, procs[p].step_index))
  /\ procs' = [procs EXCEPT ![p] = [@ EXCEPT !.pc = "actions", !.event = Len(events) + 1,
                                            !.action = 1, !.target_users = {}]]
  /\ UNCHANGED <<now, incident, assignments, policies, sent, calls, apiCalls>>
  /\ UNCHANGED <<unawaited, sweep, trigger, authoring>>

\* the insert raises: the step is abandoned without an event
CreateEventFails(p) ==
  /\ procs[p].pc = "create"
  /\ procs' = [procs EXCEPT ![p] = AfterCreateFailure(@, events, now)]
  /\ UNCHANGED <<now, incident, assignments, policies, events, sent, calls, apiCalls>>
  /\ UNCHANGED <<unawaited, sweep, trigger, authoring>>

\* the dispatch loop of a notify action over the resolved users, in order;
\* the processor skips users recorded for the step; a dispatch may raise
Dispatch(p, users) ==
  LET pr == procs[p]
      Fresh(u) == ShouldNotifyUser(u, pr.policy, pr.step_index)
      sends == IF pr.kind = "service" THEN users ELSE SelectSeq(users, Fresh)
  IN \E k \in 0..Len(sends) :
       /\ sent' = [t \in Tuples |->
                     IF t[1] = pr.policy /\ t[2] = pr.step_index
                     THEN sent[t] + CountIn(sends, k, t[3]) ELSE sent[t]]
       /\ IF k = Len(sends)
          THEN /\ procs' = [procs EXCEPT ![p] =
                              AfterAction(pr, users, Len(CurrentStep(p).actions))]
               /\ events' = events
          ELSE FailStep(p, DispatchError)

\* a notify action: the recipients are resolved and dispatched to
NotifyStep(p) ==
  /\ procs[p].pc = "actions"
  /\ CurrentAction(p).type = "notify"
  /\ Dispatch(p, ResolveAll(incident, assignments, Recipients(CurrentAction(p))))
  /\ UNCHANGED <<now, incident, assignments, policies, calls, apiCalls>>
  /\ UNCHANGED <<unawaited, sweep, trigger, authoring>>

\* a notify_<role> action: the users of the role in the incident's team
\* column, whatever it holds, are dispatched to
RoleNotifyStep(p) ==
  /\ procs[p].pc = "actions"
  /\ IsRoleNotify(CurrentAction(p).type)
  /\ Dispatch(p, GetUsersByRoleAndTeam(RoleOfType(CurrentAction(p).type), incident.team_id))
  /\ UNCHANGED <<now, incident, assignments, policies, calls, apiCalls>>
  /\ UNCHANGED <<unawaited, sweep, trigger, authoring>>

\* an assign action: the service resolves the target and looks up the
\* assignment of each user; on a missing one it goes on to assign_user; the
\* processor ignores the action
AssignStep(p) ==
  /\ procs[p].pc = "actions"
  /\ CurrentAction(p).type = "assign"
  /\ LET pr == procs[p]
         users == IF pr.kind = "service" /\ CurrentAction(p).target # ""
                  THEN GetEscalationTargets(incident, assignments, CurrentAction(p).target)
                  ELSE <<>>
         missing == SelectSeq(users, LAMBDA u : u \notin SeqToSet(assignments))
     IN procs' = [procs EXCEPT ![p] =
                    IF missing = <<>>
                    THEN AfterAction(pr, users, Len(CurrentStep(p).actions))
                    ELSE [pr EXCEPT !.pc = "assign", !.user_id = Head(missing)]]
  /\ UNCHANGED <<now, incident, assignments, policies, events, sent, calls, apiCalls>>
  /\ UNCHANGED <<unawaited, sweep, trigger, authoring>>

\* assign_user found no row: the assignment is inserted and committed, and
\* the await of the row it returned raises
AssignUser(p) ==
  /\ procs[p].pc = "assign"
  /\ assignments' = Append(assignments, procs[p].user_id)
  /\ events' = [events EXCEPT ![procs[p].event] = MarkAsFailed(@, AwaitError)]
  /\ procs' = [procs EXCEPT ![p] = AfterStep([@ EXCEPT !.user_id = 0], events, now)]
  /\ UNCHANGED <<now, incident, policies, sent, calls, apiCalls>>
  /\ UNCHANGED <<unawaited, sweep, trigger, authoring>>

\* a status_change action: the service commits a known status and then awaits
\* the row update_status returned, which raises; an unknown name is ignored;
\* the processor ignores the action
StatusChangeStep(p) ==
  /\ procs[p].pc = "actions"
  /\ IsStatusChange(CurrentAction(p).type)
  /\ LET pr == procs[p]
         status == CurrentAction(p).status
     IN IF pr.kind = "service" /\ status # "" /\ StatusEnum(status) # ""
        THEN /\ incident' = [incident EXCEPT !.status = StatusEnum(status)]
             /\ FailStep(p, AwaitError)
        ELSE /\ procs' = [procs EXCEPT ![p] =
                            AfterAction(pr, <<>>, Len(CurrentStep(p).actions))]
             /\ UNCHANGED <<incident, events>>
  /\ UNCHANGED <<now, assignments, policies, sent, calls, apiCalls>>
  /\ UNCHANGED <<unawaited, sweep, trigger, authoring>>

\* the accumulated targets are committed to the event's metadata, the event
\* is marked completed and the step is over
CompleteStep(p) ==
  /\ procs[p].pc = "complete"
  /\ events' = [events EXCEPT ![procs[p].event] =
                  MarkAsCompleted([@ EXCEPT !.target_users = procs[p].target_users])]
  /\ procs' = [procs EXCEPT ![p] = AfterStep(@, events, now)]
  /\ UNCHANGED <<now, incident, assignments, policies, sent, calls, apiCalls>>
  /\ UNCHANGED <<unawaited, sweep, trigger, authoring>>

\* the clock advances; it is read only to compare the age of the incident
\* with the delays, so readings past the last delay are not told apart
Tick ==
  /\ \E i \in DOMAIN policies : \E k \in DOMAIN policies[i].steps :
       policies[i].steps[k].delay_minutes > now
  /\ \E t \in Times : t > now /\ now' = t
  /\ UNCHANGED <<incident, assignments, policies, events, sent, procs, calls, apiCalls>>
  /\ UNCHANGED <<unawaited, sweep, trigger, authoring>>

\* acknowledge / resolve / snooze endpoints: acknowledge and resolve return at
\* once when the status is already there, and else assign the incident to
\* the calling user when that user has no assignment
ApiUpdateStatus(status, current_user) ==
  /\ apiCalls < MaxApiCalls
  /\ apiCalls' = apiCalls + 1
  /\ IF status # "snoozed" /\ incident.status = status
     THEN UNCHANGED <<incident, assignments>>
     ELSE /\ incident' = [incident EXCEPT !.status = status]
          /\ assignments' = IF status # "snoozed" /\ current_user \notin SeqToSet(assignments)
                            THEN Append(assignments, current_user)
                            ELSE assignments
  /\ UNCHANGED <<now, policies, events, sent, procs, calls>>
  /\ UNCHANGED <<unawaited, sweep, trigger, authoring>>

\* the update endpoint: the status of the request is written; for a status
\* that is not resolved or snoozed check_and_escalate_incident is called
\* without await, which creates the coroutine and drops it
ApiUpdateIncident(status) ==
  /\ apiCalls < MaxApiCalls
  /\ apiCalls' = apiCalls + 1
  /\ incident' = [incident EXCEPT !.status = status]
  /\ unawaited' = IF status \notin TerminalStatuses THEN unawaited + 1 ELSE unawaited
  /\ UNCHANGED <<now, assignments, policies, events, sent, procs, calls, sweep>>
  /\ UNCHANGED <<trigger, authoring>>

\* flow 1 is a run of the cron script or a service call; flow 2 is a service
\* call (an API request or the worker) running next to it
KindsOf(p) == IF p = 1 THEN Kinds ELSE {"service"}

ProcStep(p) ==
  \/ \E kind \in KindsOf(p) : Begin(p, kind)
  \/ StartPolicies(p)
  \/ CreateEvent(p)
  \/ CreateEventFails(p)
  \/ NotifyStep(p)
  \/ RoleNotifyStep(p)
  \/ AssignStep(p)
  \/ AssignUser(p)
  \/ StatusChangeStep(p)
  \/ CompleteStep(p)

Environment ==
  \/ Tick
  \/ \E status \in {"acknowledged", "resolved", "snoozed"}, current_user \in ApiUsers :
       ApiUpdateStatus(status, current_user)

\* both flows run, interleaved at every commit and dispatch
Next == (\E p \in Procs : ProcStep(p)) \/ Environment

Spec == Init /\ [][Next]_vars

\* one flow only: evaluation calls follow one another
NextSeq == ProcStep(1) \/ Environment

SpecSeq == InitSeq /\ [][NextSeq]_vars

\* ------------------------------------------------ a call that keeps running
\* one flow over the one-step policies next to a second matching policy; the
\* call is not abandoned: a step of the flow that can be taken is eventually taken
InitLive ==
  InitWith({<<Policy1(<<s>>), Policy2(TRUE, NoConditions)>> : s \in StepChoices}, {TeamId})

SpecLive == InitLive /\ [][NextSeq]_vars /\ WF_vars(ProcStep(1))

\* ------------------------------------------------- the update endpoint
\* PUT /incidents/{id} next to the evaluation calls of one flow, over two
\* policies of one notify step each
InitUpdate ==
  InitWith({<<Policy1(SecondPolicySteps), Policy2(TRUE, NoConditions)>>}, {TeamId})

NextUpdate ==
  \/ \E kind \in Kinds : Begin(1, kind)
  \/ StartPolicies(1)
  \/ CreateEvent(1)
  \/ NotifyStep(1)
  \/ CompleteStep(1)
  \/ \E status \in IncidentStatuses : ApiUpdateIncident(status)

SpecUpdate == InitUpdate /\ [][NextUpdate]_vars

\* ------------------------------------------------- policy matching alone
\* conditions and incident fields range over the value shapes the matcher
\* distinguishes; the call is followed up to the insert of its first event
SeverityConds == {NoCond, Scalar("HIGH"), ListOf(<<"high", "critical">>), ListOf(<<"low">>)}

ServiceConds == {NoCond, Scalar("api"), ListOf(<<"API", "db">>)}

TeamConds == {NoCond, Scalar(1), Scalar(2), ListOf(<<1, 2>>)}

MatchPolicySets ==
  {<<[id |-> 1, is_active |-> a,
      conditions |-> [severity |-> sv, service |-> sc, team_id |-> tc],
      steps |-> SecondPolicySteps],
     Policy2(TRUE, LowOnly)>> :
     a \in BOOLEAN, sv \in SeverityConds, sc \in ServiceConds, tc \in TeamConds}

InitMatch ==
  /\ now = 0
  /\ incident \in {[status |-> "triggered", severity |-> sv, service |-> sc, team_id |-> t] :
                     sv \in {"high", "low"}, sc \in {"api", "API"}, t \in {NoTeam, TeamId}}
  /\ assignments = <<2>>
  /\ policies \in MatchPolicySets
  /\ events = <<>>
  /\ sent = [t \in Tuples |-> 0]
  /\ procs = [p \in Procs |-> IdleProc]
  /\ calls = 0
  /\ apiCalls = 0
  /\ unawaited = 0
  /\ sweep = NoSweep
  /\ trigger = NoTrigger
  /\ authoring = NoRequest

NextMatch ==
  \/ \E kind \in Kinds : Begin(1, kind)
  \/ StartPolicies(1)
  \/ CreateEvent(1)

SpecMatch == InitMatch /\ [][NextMatch]_vars

\* ------------------------------------------------------ the periodic sweep
\* Worker.process_escalations and EscalationProcessor.run: the incidents that
\* are neither resolved nor snoozed are read once and evaluated one after the
\* other, each inside its own try/except.  The evaluation of one incident is
\* the call the other specifications follow step by step; here it returns or
\* raises.
SweepIncidents == {1, 2, 3}

\* the sweep is aborted when an evaluation raises
AfterEvaluationAborting(queue, raises) == IF raises THEN <<>> ELSE Tail(queue)

\* the except branch logs (and rolls back) and the loop goes on
AfterEvaluation(queue, raises) == Tail(queue)

InitSweep ==
  /\ now = 0
  /\ incident = TheIncident(TeamId)
  /\ assignments = <<2>>
  /\ policies = <<Policy1(SecondPolicySteps), Policy2(TRUE, NoConditions)>>
  /\ events = <<>>
  /\ sent = [t \in Tuples |-> 0]
  /\ procs = [p \in Procs |-> IdleProc]
  /\ calls = 0
  /\ apiCalls = 0
  /\ unawaited = 0
  /\ trigger = NoTrigger
  /\ authoring = NoRequest
  /\ \E st \in [SweepIncidents -> IncidentStatuses] :
       sweep = [NoSweep EXCEPT !.phase = "idle", !.statuses = st]

\* the query for the active incidents
SweepQuery(kind) ==
  /\ sweep.phase = "idle"
  /\ LET active == {i \in SweepIncidents : Evaluates(kind, sweep.statuses[i])}
     IN sweep' = [sweep EXCEPT !.phase = "running", !.active = active,
                               !.queue = SetToSortedSeq(active)]
  /\ UNCHANGED <<now, incident, assignments, policies, events, sent, procs, calls,
                 apiCalls, unawaited, trigger, authoring>>

\* the next incident of the list is evaluated; an exception is caught
SweepEvaluate(raises) ==
  /\ sweep.phase = "running"
  /\ sweep.queue # <<>>
  /\ sweep' = [sweep EXCEPT !.evaluated = @ \cup {Head(sweep.queue)},
                            !.failed = IF raises THEN @ \cup {Head(sweep.queue)} ELSE @,
                            !.queue = AfterEvaluation(@, raises)]
  /\ UNCHANGED <<now, incident, assignments, policies, events, sent, procs, calls,
                 apiCalls, unawaited, trigger, authoring>>

\* the list is exhausted: the sweep logs its end and returns
SweepFinish ==
  /\ sweep.phase = "running"
  /\ sweep.queue = <<>>
  /\ sweep' = [sweep EXCEPT !.phase = "finished"]
  /\ UNCHANGED <<now, incident, assignments, policies, events, sent, procs, calls,
                 apiCalls, unawaited, trigger, authoring>>

\* an API call changes the status of an incident while the sweep runs
SweepApi(i, status) ==
  /\ sweep.phase = "running"
  /\ sweep.statuses[i] # status
  /\ sweep' = [sweep EXCEPT !.statuses[i] = status]
  /\ UNCHANGED <<now, incident, assignments, policies, events, sent, procs, calls,
                 apiCalls, unawaited, trigger, authoring>>

NextSweep ==
  \/ \E kind \in Kinds : SweepQuery(kind)
  \/ \E raises \in BOOLEAN : SweepEvaluate(raises)
  \/ SweepFinish
  \/ \E i \in SweepIncidents, status \in IncidentStatuses : SweepApi(i, status)

SpecSweep == InitSweep /\ [][NextSweep]_vars

\* ------------------------------------------------ the manual trigger
\* POST /incidents/{incident_id}/escalate/: 404 for a missing incident, 403
\* for a caller who is neither superuser nor assignee; then the evaluation
\* inside try/except Exception, the refresh and the return of the incident.
\* The evaluation is the call the other specifications follow step by step;
\* here it returns having fired no step, a completed step or a failed step,
\* or it raises.
TriggerIds == {1, 2}

\* the incidents row of the store has id 1
IncidentExists(incident_id) == incident_id = 1

EvaluationOutcomes(status) ==
  IF IsSkippedStatus(status) THEN {"skipped"}
  ELSE {"no_step", "step_completed", "step_failed", "raised"}

\* the exception of the evaluation reaches the caller
TriggerResultSurfacing(outcome) == IF outcome = "raised" THEN 500 ELSE 200

\* the except branch prints the error; the handler goes on to the return
TriggerResult(outcome) == 200

\* the caller is superuser or has an assignment row of the incident
Permitted(req, rows) == req.is_superuser \/ req.current_user \in SeqToSet(rows)

InitTrigger ==
  /\ InitWith({<<Policy1(SecondPolicySteps), Policy2(TRUE, NoConditions)>>}, {TeamId})

\* the request arrives: the existence and permission checks
TriggerRequest(incident_id, current_user, is_superuser) ==
  /\ trigger.phase \in {"off", "responded"}
  /\ LET req == [NoTrigger EXCEPT !.incident_id = incident_id,
                                  !.current_user = current_user,
                                  !.is_superuser = is_superuser]
     IN trigger' =
          IF ~IncidentExists(incident_id)
          THEN [req EXCEPT !.phase = "responded", !.status_code = 404]
          ELSE IF ~Permitted(req, assignments)
          THEN [req EXCEPT !.phase = "responded", !.status_code = 403]
          ELSE [req EXCEPT !.phase = "permitted"]
  /\ UNCHANGED <<now, incident, assignments, policies, events, sent, procs, calls,
                 apiCalls, unawaited, sweep, authoring>>

\* check_and_escalate_incident is awaited inside the try
TriggerEvaluate(outcome) ==
  /\ trigger.phase = "permitted"
  /\ outcome \in EvaluationOutcomes(incident.status)
  /\ trigger' = [trigger EXCEPT !.phase = "evaluated", !.outcome = outcome]
  /\ UNCHANGED <<now, incident, assignments, policies, events, sent, procs, calls,
                 apiCalls, unawaited, sweep, authoring>>

\* db.refresh(incident); return incident
TriggerRespond ==
  /\ trigger.phase = "evaluated"
  /\ trigger' = [trigger EXCEPT !.phase = "responded",
                                !.status_code = TriggerResult(trigger.outcome),
                                !.id = IF TriggerResult(trigger.outcome) = 200
                                       THEN trigger.incident_id ELSE 0]
  /\ UNCHANGED <<now, incident, assignments, policies, events, sent, procs, calls,
                 apiCalls, unawaited, sweep, authoring>>

NextTrigger ==
  \/ \E incident_id \in TriggerIds, current_user \in Users, is_superuser \in BOOLEAN :
       TriggerRequest(incident_id, current_user, is_superuser)
  \/ \E outcome \in {"skipped", "no_step", "step_completed", "step_failed", "raised"} :
       TriggerEvaluate(outcome)
  \/ TriggerRespond
  \/ \E status \in {"acknowledged", "resolved", "snoozed"}, current_user \in ApiUsers :
       ApiUpdateStatus(status, current_user)

SpecTrigger == InitTrigger /\ [][NextTrigger]_vars

\* ------------------------------------------------- policy authoring
\* POST /policies/ and PUT /policies/{policy_id}: the request body is
\* validated by the schema before the handler runs (422), the handler checks
\* the caller (403), the name (400) or the policy (404) and writes the store.
\* A step is a dictionary that may lack keys; so is an action.
PolicyNames == {"a", "b"}

TypedAction == [type |-> "notify", target |-> "manager"]

UntypedAction == [target |-> "manager"]

GoodStep == [delay_minutes |-> 0, actions |-> <<TypedAction>>]

NoDelayStep == [actions |-> <<TypedAction>>]

NoActionsStep == [delay_minutes |-> 0]

EmptyActionsStep == [delay_minutes |-> 0, actions |-> <<>>]

UntypedActionStep == [delay_minutes |-> 0, actions |-> <<TypedAction, UntypedAction>>]

CandidateSteps == {GoodStep, NoDelayStep, NoActionsStep, EmptyActionsStep, UntypedActionStep}

CandidateLists ==
  {<<>>} \cup {<<s>> : s \in CandidateSteps} \cup {<<GoodStep, s>> : s \in CandidateSteps}

\* only the delay_minutes key is required
ValidateStepsDelayOnly(steps) ==
  \A i \in DOMAIN steps : "delay_minutes" \in DOMAIN steps[i]

\* the steps validator of the create and update schemas
ValidateSteps(steps) ==
  \A i \in DOMAIN steps :
    /\ "delay_minutes" \in DOMAIN steps[i]
    /\ "actions" \in DOMAIN steps[i]
    /\ steps[i].actions # <<>>
    /\ \A j \in DOMAIN steps[i].actions : "type" \in DOMAIN steps[i].actions[j]

GetByName(pols, name) == {i \in DOMAIN pols : pols[i].name = name}

InitAuthor == InitWith({<<>>}, {TeamId})

CreatePolicy(name, steps, is_superuser) ==
  LET code == IF ~ValidateSteps(steps) THEN 422
              ELSE IF ~is_superuser THEN 403
              ELSE IF GetByName(policies, name) # {} THEN 400
              ELSE 201
  IN /\ authoring' = [op |-> "create", steps_set |-> TRUE, steps |-> steps,
                      status_code |-> code]
     /\ policies' = IF code = 201
                    THEN Append(policies, [id |-> Len(policies) + 1, name |-> name,
                                           is_active |-> TRUE, conditions |-> NoConditions,
                                           steps |-> steps])
                    ELSE policies
     /\ UNCHANGED <<now, incident, assignments, events, sent, procs, calls, apiCalls,
                    unawaited, sweep, trigger>>

\* the update writes the fields the request has set
UpdatePolicy(policy_id, steps_set, steps, is_superuser) ==
  LET code == IF steps_set /\ ~ValidateSteps(steps) THEN 422
              ELSE IF ~is_superuser THEN 403
              ELSE IF policy_id \notin DOMAIN policies THEN 404
              ELSE 200
  IN /\ authoring' = [op |-> "update", steps_set |-> steps_set, steps |-> steps,
                      status_code |-> code]
     /\ policies' = IF code = 200 /\ steps_set
                    THEN [policies EXCEPT ![policy_id].steps = steps]
                    ELSE policies
     /\ UNCHANGED <<now, incident, assignments, events, sent, procs, calls, apiCalls,
                    unawaited, sweep, trigger>>

NextAuthor ==
  \/ \E name \in PolicyNames, steps \in CandidateLists, is_superuser \in BOOLEAN :
       CreatePolicy(name, steps, is_superuser)
  \/ \E policy_id \in PolicyIds, steps \in CandidateLists, is_superuser \in BOOLEAN :
       UpdatePolicy(policy_id, TRUE, steps, is_superuser)
  \/ \E policy_id \in PolicyIds, is_superuser \in BOOLEAN :
       UpdatePolicy(policy_id, FALSE, <<>>, is_superuser)

SpecAuthor == InitAuthor /\ [][NextAuthor]_vars

\* ================================================================ claims
EventsOf(policy_id, step) ==
  {i \in DOMAIN events : events[i].policy_id = policy_id /\ events[i].step = step}

DelayOf(policy_id, step) == policies[policy_id].steps[step + 1].delay_minutes

HasStep(policy_id, step) == step + 1 \in DOMAIN policies[policy_id].steps

\* C1: however many evaluation calls follow one another, the ledger never
\* holds two or more completed events for one (incident, policy, step) tuple
C1_OneCompletedEventPerTuple ==
  \A pid \in PolicyIds, step \in StepIndexes :
    Cardinality({i \in EventsOf(pid, step) : events[i].status = "completed"}) <= 1

\* C2: two concurrent evaluation calls on the same incident, policy and step
\* never both execute actions of the step
C2_NoConcurrentDoubleExecution ==
  \A p, q \in Procs :
    p # q =>
      ~ /\ procs[p].pc \in {"actions", "complete"}
        /\ procs[q].pc \in {"actions", "complete"}
        /\ procs[p].policy = procs[q].policy
        /\ procs[p].step_index = procs[q].step_index
        /\ procs[p].action > 1
        /\ procs[q].action > 1

\* C3: the ledger never holds two rows with the same (incident_id, policy_id,
\* step), whatever their status
C3_UniqueTuple ==
  \A i, j \in DOMAIN events :
    i # j => <<events[i].incident_id, events[i].policy_id, events[i].step>>
             # <<events[j].incident_id, events[j].policy_id, events[j].step>>

\* C4: for every (incident, policy, step) tuple and user, at most one
\* escalation notification is ever dispatched to that user for that tuple
C4_NotifiedAtMostOnce == \A t \in Tuples : sent[t] <= 1

\* C5: no event exists for a step index j while a step index i < j of the
\* same policy has no event
C5_AscendingStepOrder ==
  \A e \in DOMAIN events :
    \A i \in StepIndexes : i < events[e].step => EventsOf(events[e].policy_id, i) # {}

\* C6: a step whose delay_minutes exceeds the incident age is never processed:
\* it has no event and no notification was dispatched for it
C6_NotDueNeverProcessed ==
  /\ \A e \in DOMAIN events : DelayOf(events[e].policy_id, events[e].step) <= now
  /\ \A t \in Tuples : sent[t] > 0 => HasStep(t[1], t[2]) /\ DelayOf(t[1], t[2]) <= now

\* a call was made and is over, the incident is five minutes old and was
\* never excluded, the only applicable policy has one step of delay 10, and
\* the ledger is empty
C6_Witness ==
  /\ calls >= 1
  /\ \A p \in Procs : procs[p].pc = "idle"
  /\ now = 5
  /\ apiCalls = 0
  /\ Len(policies[1].steps) = 1
  /\ policies[1].steps[1].delay_minutes = 10
  /\ ~policies[2].is_active
  /\ events = <<>>

\* C7: an evaluation call that starts on a resolved or snoozed incident
\* returns at once: it creates no event and dispatches no notification
C7_TerminalStateExclusion ==
  [][(calls' = calls + 1 /\ incident.status \in TerminalStatuses)
       => /\ events' = events
          /\ sent' = sent
          /\ \A p \in Procs : procs'[p] = procs[p] \/ procs'[p].pc = "skipped"]_vars

\* a call returned at the status gate of a resolved or snoozed incident whose
\* first policy matches and has a step that is due
C7_Witness ==
  /\ \E p \in Procs : procs[p].pc = "skipped"
  /\ incident.status \in TerminalStatuses
  /\ policies[1].steps[1].delay_minutes = 0

\* value v is accepted by condition c: the key is absent, or v is among the
\* given values, compared case-insensitively when ci
Accepts(c, v, ci) ==
  c.present =>
    \E i \in DOMAIN c.items :
      IF ci THEN Lower(c.items[i]) = Lower(v) ELSE c.items[i] = v

ReferenceMatch(policy, inc, serviceCi) ==
  /\ Accepts(policy.conditions.severity, inc.severity, TRUE)
  /\ Accepts(policy.conditions.service, inc.service, serviceCi)
  /\ Accepts(policy.conditions.team_id, inc.team_id, FALSE)

ReferencePolicies(serviceCi) ==
  {i \in DOMAIN policies : policies[i].is_active /\ ReferenceMatch(policies[i], incident, serviceCi)}

MatchedAre(ids) ==
  \A p \in Procs :
    procs[p].pc = "matched" =>
      /\ SeqToSet(procs[p].policies) = ids
      /\ Len(procs[p].policies) = Cardinality(ids)

\* C8 (as claimed): the matching policies are exactly the active policies
\* each of whose present keys accepts the incident's field, severity and
\* service compared case-insensitively, team_id by equality or membership
C8_MatchesReferenceAsClaimed == MatchedAre(ReferencePolicies(TRUE))

\* C8 (amended): as claimed, but service is compared exactly (case-sensitive);
\* and every event belongs to an active policy that matches in this sense
C8_MatchesReference ==
  /\ MatchedAre(ReferencePolicies(FALSE))
  /\ \A e \in DOMAIN events : events[e].policy_id \in ReferencePolicies(FALSE)

\* the matcher ran on an active policy whose service condition differs from
\* the incident's service by case only, every other key accepting, and left
\* the policy out
C8_Witness ==
  /\ procs[1].pc = "matched"
  /\ policies[1].is_active
  /\ ReferenceMatch(policies[1], incident, TRUE)
  /\ ~ReferenceMatch(policies[1], incident, FALSE)
  /\ 1 \notin SeqToSet(procs[1].policies)

StepChangedBy(p) == procs'[p] # procs[p]

HasPendingEvent(p) ==
  /\ procs[p].event \in DOMAIN events
  /\ events[procs[p].event].status = "pending"
  /\ events[procs[p].event].policy_id = procs[p].policy
  /\ events[procs[p].event].step = procs[p].step_index

\* C9: every dispatch, assignment or status change made by an evaluation
\* happens while the ledger holds the committed pending event of the flow's
\* current (incident, policy, step)
C9_PendingBeforeEffects ==
  [][/\ \A p \in Procs :
          (StepChangedBy(p) /\ (sent' # sent \/ assignments' # assignments
                                \/ incident' # incident))
            => HasPendingEvent(p)
     /\ \A t \in Tuples :
          sent'[t] # sent[t] =>
            \E p \in Procs : /\ StepChangedBy(p) /\ HasPendingEvent(p)
                             /\ procs[p].policy = t[1] /\ procs[p].step_index = t[2]]_vars

\* a flow has dispatched a notification for its step and its event is still pending
C9_Witness ==
  \E p \in Procs :
    /\ procs[p].pc = "complete"
    /\ HasPendingEvent(p)
    /\ \E u \in Users : sent[<<procs[p].policy, procs[p].step_index, u>>] > 0

\* C10: an event is created pending and changes status at most once, from
\* pending to completed or failed; completed and failed events keep their status
C10_EventStatusMachine ==
  [][\A i \in DOMAIN events' :
       IF i \in DOMAIN events
       THEN \/ events'[i].status = events[i].status
            \/ events[i].status = "pending" /\ events'[i].status \in {"completed", "failed"}
       ELSE events'[i].status = "pending"]_vars

\* the ledger holds a completed and a failed event
C10_Witness ==
  /\ \E i \in DOMAIN events : events[i].status = "completed"
  /\ \E i \in DOMAIN events : events[i].status = "failed"

\* the step of flow p fails in this transition
FailsStep(p) ==
  /\ procs[p].event \in DOMAIN events
  /\ events[procs[p].event].status = "pending"
  /\ events'[procs[p].event].status = "failed"

\* policy q has no step an evaluator of this kind would select now
NothingToSelect(kind, q) ==
  \A i \in DOMAIN policies[q].steps :
    \/ policies[q].steps[i].delay_minutes > now
    \/ kind = "processor" /\ EventsOf(q, i - 1) # {}

\* C11: when an action of a step raises, the step's event is marked failed
\* with the error text, the call goes on normally, and every other matching
\* policy of the call is still to be processed, is being processed, or has
\* nothing to process
C11_FailureIsolation ==
  [][\A p \in Procs :
       FailsStep(p) =>
         /\ events'[procs[p].event].error # ""
         /\ procs'[p].pc \in {"create", "idle"}
         /\ \A q \in SeqToSet(procs[p].policies) :
              \/ q \in SeqToSet(procs'[p].policies)
              \/ procs'[p].pc = "create" /\ procs'[p].policy = q
              \/ NothingToSelect(procs[p].kind, q)]_vars

\* in one call, a step of policy 1 failed with its error recorded and the
\* step of policy 2 was processed after it
C11_Witness ==
  /\ calls = 1
  /\ \E i, j \in DOMAIN events :
       /\ i < j
       /\ events[i].policy_id = 1 /\ events[i].status = "failed" /\ events[i].error # ""
       /\ events[j].policy_id = 2 /\ events[j].status = "completed"

\* C12: after a step's actions raise in an evaluation pass, the pass creates
\* no event for a later step of the same policy
C12_NoAdvanceAfterFailure ==
  [][\A p \in Procs :
       FailsStep(p) => ~(procs'[p].pc = "create" /\ procs'[p].policy = procs[p].policy)]_vars

\* the lowest index among the steps of policy q that are due, 0 when none is
FirstDue(q) ==
  LET due == {i \in DOMAIN policies[q].steps : policies[q].steps[i].delay_minutes <= now}
  IN IF due = {} THEN 0 ELSE CHOOSE i \in due : \A j \in due : i <= j

OnlyFailedEvents(q, step) ==
  /\ EventsOf(q, step) # {}
  /\ \A e \in EventsOf(q, step) : events[e].status = "failed"

\* C13: a pass that enters a policy whose first due step has only failed
\* events selects that step again
C13_FailedStepRetried ==
  [][\A p \in Procs :
       (/\ procs[p].pc = "matched"
        /\ procs'[p].pc # "matched"
        /\ procs[p].policies # <<>>
        /\ FirstDue(Head(procs[p].policies)) # 0
        /\ OnlyFailedEvents(Head(procs[p].policies), FirstDue(Head(procs[p].policies)) - 1))
       => /\ procs'[p].pc = "create"
          /\ procs'[p].policy = Head(procs[p].policies)
          /\ procs'[p].step_index = FirstDue(Head(procs[p].policies)) - 1]_vars

\* C14: the tracking evaluator dispatches to a user only when that user was
\* not yet notified for the (incident, policy, step): never twice for a step
C14_ProcessorNotifiesNewUsersOnly ==
  [][\A p \in Procs :
       (procs[p].kind = "processor" /\ StepChangedBy(p)) =>
         \A t \in Tuples : sent'[t] # sent[t] => sent[t] = 0 /\ sent'[t] = 1]_vars

\* positions of a flow inside a step, after the insert of its event
InStep == {"actions", "assign", "complete"}

\* flow p ends the step it was running
EndsStep(p) ==
  /\ procs[p].pc \in InStep
  /\ procs'[p].pc \notin InStep

\* after its step, flow p neither stands before another insert for the same
\* policy nor keeps the policy among those still to be processed
LeavesPolicy(p) ==
  /\ ~(procs'[p].pc = "create" /\ procs'[p].policy = procs[p].policy)
  /\ procs[p].policy \notin SeqToSet(procs'[p].policies)

\* C15 (as claimed): an evaluation call of either evaluator processes at
\* most one step per matching policy
C15_OneStepPerPolicyPerCall ==
  [][\A p \in Procs : EndsStep(p) => LeavesPolicy(p)]_vars

\* C15 (amended): a pass of the EscalationProcessor processes at most one
\* step per matching policy, later due steps being left to later passes
C15_ProcessorOneStepPerPolicyPerCall ==
  [][\A p \in Procs : (procs[p].kind = "processor" /\ EndsStep(p)) => LeavesPolicy(p)]_vars

\* one processor pass is over; both steps of policy 1 were due from the
\* start and only step 0 has an event
C15_Witness ==
  /\ calls = 1
  /\ procs[1].kind = "processor"
  /\ procs[1].pc = "idle"
  /\ Len(policies[1].steps) = 2
  /\ \A i \in {1, 2} : policies[1].steps[i].delay_minutes = 0
  /\ EventsOf(1, 0) # {}
  /\ EventsOf(1, 1) = {}

\* C16: a check_and_escalate_incident call leaves a policy only when every
\* step of the policy that is due was processed in that call
C16_ServiceProcessesEveryDueStep ==
  [][\A p \in Procs :
       (/\ procs[p].kind = "service"
        /\ EndsStep(p)
        /\ ~(procs'[p].pc = "create" /\ procs'[p].policy = procs[p].policy))
       => \A i \in DOMAIN CurrentPolicy(p).steps :
            CurrentPolicy(p).steps[i].delay_minutes <= now
              => (i - 1) \in procs[p].processed_steps \cup {procs[p].step_index}]_vars

\* one service call on an incident aged past the delays 0 and 10 of the two
\* steps of policy 1 is over, and the notifications of both steps were sent
C16_Witness ==
  /\ calls = 1
  /\ procs[1].kind = "service"
  /\ procs[1].pc = "idle"
  /\ now = 10
  /\ Len(policies[1].steps) = 2
  /\ policies[1].steps[1].delay_minutes = 0
  /\ policies[1].steps[2].delay_minutes = 10
  /\ \E u \in Users : sent[<<1, 0, u>>] = 1
  /\ \E u \in Users : sent[<<1, 1, u>>] = 1
  /\ Len(events) >= 2
  /\ events[1].status = "completed" /\ events[1].step = 0
  /\ events[2].status = "completed" /\ events[2].step = 1

IsNotifyType(type) == type = "notify" \/ IsRoleNotify(type)

\* C17: whatever happens to the dispatches of a notify action that has
\* sibling actions after it, the flow goes on to the next action of the step
C17_SiblingActionsStillRun ==
  [][\A p \in Procs :
       (/\ procs[p].pc = "actions"
        /\ StepChangedBy(p)
        /\ IsNotifyType(CurrentAction(p).type)
        /\ procs[p].action < Len(CurrentStep(p).actions))
       => /\ procs'[p].pc = "actions"
          /\ procs'[p].action = procs[p].action + 1
          /\ procs'[p].event = procs[p].event]_vars

\* C18: when the insert of a step's pending event fails, the flow runs none
\* of the step's actions, goes on or returns normally, and dispatches,
\* incident status and assignments are as before
C18_CreateFailureHasNoEffects ==
  [][\A p \in Procs :
       (procs[p].pc = "create" /\ StepChangedBy(p) /\ events' = events)
       => /\ procs'[p].pc \in {"create", "idle"}
          /\ procs'[p].pc = "create" => procs'[p].policy # procs[p].policy
          /\ sent' = sent
          /\ incident' = incident
          /\ assignments' = assignments]_vars

\* the only call made found a due step of a matching policy, is over, and
\* left no event, no dispatch and no change of status or assignments
C18_Witness ==
  /\ calls = 1
  /\ apiCalls = 0
  /\ \A p \in Procs : procs[p].pc = "idle"
  /\ policies[1].steps[1].delay_minutes = 0
  /\ events = <<>>
  /\ \A t \in Tuples : sent[t] = 0
  /\ incident.status = "triggered"
  /\ assignments = <<2>>

\* C19: a notify action addressed to "assignees" that returns normally has
\* dispatched exactly one notification to each assigned user, whether or
\* not the incident has a team reference
C19_AssigneesNotified ==
  [][\A p \in Procs :
       (/\ procs[p].pc = "actions"
        /\ CurrentAction(p).type = "notify"
        /\ Recipients(CurrentAction(p)) = <<"assignees">>
        /\ procs'[p].pc \in {"actions", "complete"}
        /\ procs'[p].action = procs[p].action + 1)
       => \A u \in SeqToSet(assignments) :
            sent'[<<procs[p].policy, procs[p].step_index, u>>]
              = sent[<<procs[p].policy, procs[p].step_index, u>>] + 1]_vars

\* C20: on an incident without a team reference no action that addresses a
\* role keyword, as notify target or as notify_<role>, dispatches to anyone
C20_NoTeamRoleNotifiesNobody ==
  [][\A p \in Procs :
       (/\ incident.team_id = NoTeam
        /\ procs[p].pc = "actions"
        /\ StepChangedBy(p)
        /\ \/ IsRoleNotify(CurrentAction(p).type)
           \/ /\ CurrentAction(p).type = "notify"
              /\ SeqToSet(Recipients(CurrentAction(p))) \subseteq RoleKeywords)
       => sent' = sent]_vars

\* C21: the incident never has two assignment rows for the same user
C21_OneAssignmentPerUser ==
  \A i, j \in DOMAIN assignments : i # j => assignments[i] # assignments[j]

\* C22: a status_change or change_status action of the service whose status
\* names a known incident status, in any letter case, sets the incident to
\* it; any other name leaves the incident as it is and raises nothing
C22_StatusChange ==
  [][\A p \in Procs :
       (/\ procs[p].pc = "actions"
        /\ procs[p].kind = "service"
        /\ StepChangedBy(p)
        /\ IsStatusChange(CurrentAction(p).type))
       => IF Lower(CurrentAction(p).status) \in IncidentStatuses
          THEN incident'.status = Lower(CurrentAction(p).status)
          ELSE /\ incident' = incident
               /\ events' = events
               /\ procs'[p].pc \in {"actions", "complete"}]_vars

\* only the service ran, and the step whose last action names the unknown
\* status "closed" has a completed event
C22_Witness ==
  /\ \A p \in Procs : procs[p].kind = "service"
  /\ apiCalls = 0
  /\ \E e \in DOMAIN events :
       /\ events[e].status = "completed"
       /\ \E a \in DOMAIN policies[events[e].policy_id].steps[events[e].step + 1].actions :
            LET action == policies[events[e].policy_id].steps[events[e].step + 1].actions[a]
            IN IsStatusChange(action.type) /\ action.status = "closed"

\* C23: a running sweep drops no incident that was active at its start,
\* whatever raised, and a finished sweep has evaluated every one of them
C23_SweepIsolation ==
  /\ sweep.phase = "running" =>
       sweep.evaluated \cup SeqToSet(sweep.queue) = sweep.active
  /\ sweep.phase = "finished" => sweep.evaluated = sweep.active

\* a sweep ran to its end although the evaluation of an incident raised, and
\* an incident after that one was evaluated
C23_Witness ==
  /\ sweep.phase = "finished"
  /\ \E i \in sweep.failed, j \in sweep.evaluated \ sweep.failed : i < j

\* C24: every evaluation the update of an incident asks for is carried out:
\* no evaluation coroutine created by the update is left without being run
C24_UpdateHookEvaluates == unawaited = 0


\* C25: a manual trigger request for the existing incident by a superuser or
\* an assignee is let through to the evaluation, and whatever the evaluation
\* did (skipped the incident, no step, a completed step, a failed step, a
\* raised exception) the request is answered 200 with that incident's id
C25_TriggerReturnsIncident ==
  [][/\ (/\ trigger.phase \in {"off", "responded"}
         /\ trigger' # trigger
         /\ IncidentExists(trigger'.incident_id)
         /\ Permitted(trigger', assignments))
        => trigger'.phase = "permitted"
     /\ (trigger.phase = "permitted" /\ trigger' # trigger)
        => (/\ trigger'.phase = "evaluated"
            /\ trigger'.outcome \in EvaluationOutcomes(incident.status))
     /\ (trigger.phase = "evaluated" /\ trigger' # trigger)
        => (/\ trigger'.phase = "responded"
            /\ trigger'.status_code = 200
            /\ trigger'.id = trigger.incident_id)]_vars

C25_Witness ==
  /\ trigger.phase = "responded"
  /\ trigger.outcome = "raised"
  /\ ~trigger.is_superuser
  /\ trigger.status_code = 200
  /\ trigger.id = 1


\* a step with delay_minutes and at least one action, each action typed
WellFormedStep(step) ==
  /\ "delay_minutes" \in DOMAIN step
  /\ "actions" \in DOMAIN step
  /\ Len(step.actions) >= 1
  /\ \A j \in DOMAIN step.actions : "type" \in DOMAIN step.actions[j]

WellFormedSteps(steps) == \A k \in DOMAIN steps : WellFormedStep(steps[k])

C27_TerminalNeverEligible ==
  [][incident.status \in TerminalStatuses
     => (Len(events') = Len(events) /\ sent' = sent)]_vars

\* the steps policy q counts as processed when flow p selects in it: for the
\* processor the steps of q's own events, for the service the steps this
\* call ran in q
OwnProcessed(p, q) ==
  IF procs[p].kind = "processor"
  THEN {events[i].step : i \in {j \in DOMAIN events : events[j].policy_id = q}}
  ELSE IF procs[p].pc \in InStep /\ procs[p].policy = q
       THEN procs[p].processed_steps \cup {procs[p].step_index}
       ELSE {}

\* 0-based index of the lowest due step of q outside the set, -1 when none
LowestDueOutside(q, processed) ==
  LET due == {i \in 0..(Len(policies[q].steps) - 1) :
                i \notin processed /\ policies[q].steps[i + 1].delay_minutes <= now}
  IN IF due = {} THEN -1 ELSE CHOOSE i \in due : \A j \in due : i <= j

\* flow p selects its next step: at the start of the policy loop, after a
\* step, or after a failed insert
Selects(p) ==
  /\ procs'[p] # procs[p]
  /\ procs[p].pc \in {"matched", "create"} \cup InStep
  /\ procs'[p].pc \in {"create", "idle"}

\* the selection of flow p made from each policy's own processed steps
OwnSelection(p) ==
  LET pr == procs[p]
      stays == /\ pr.pc \in InStep
               /\ pr.kind = "service"
               /\ LowestDueOutside(pr.policy, OwnProcessed(p, pr.policy)) # -1
      rest == pr.policies
      cands == {k \in DOMAIN rest : LowestDueOutside(rest[k], OwnProcessed(p, rest[k])) # -1}
      first == CHOOSE k \in cands : \A j \in cands : k <= j
  IN IF stays
     THEN [pc |-> "create", policy |-> pr.policy,
           step_index |-> LowestDueOutside(pr.policy, OwnProcessed(p, pr.policy))]
     ELSE IF cands = {}
     THEN [pc |-> "idle", policy |-> 0, step_index |-> -1]
     ELSE [pc |-> "create", policy |-> rest[first],
           step_index |-> LowestDueOutside(rest[first], OwnProcessed(p, rest[first]))]

\* C28: each selection of a flow is the lowest due step of the first
\* remaining policy that has one outside that policy's own processed steps
\* (the policy's own events for the processor, the steps run in this call of
\* the policy for the service), so an event of another policy never makes a
\* step skipped; and an inserted event changes the steps with events of no
\* other policy
C28_PoliciesShareNoStepState ==
  [][/\ \A p \in Procs :
          Selects(p) =>
            (/\ procs'[p].pc = OwnSelection(p).pc
             /\ procs'[p].policy = OwnSelection(p).policy
             /\ procs'[p].step_index = OwnSelection(p).step_index)
     /\ Len(events') > Len(events) =>
          \A q \in PolicyIds :
            q # events'[Len(events')].policy_id =>
              {events'[i].step : i \in {j \in DOMAIN events' : events'[j].policy_id = q}}
              = {events[i].step : i \in {j \in DOMAIN events : events[j].policy_id = q}}]_vars

\* a processor run stands before the insert for step 0 of policy 2 while
\* policy 1 has an event for its step 0
C28_Witness ==
  /\ procs[1].kind = "processor"
  /\ procs[1].pc = "create"
  /\ procs[1].policy = 2
  /\ procs[1].step_index = 0
  /\ EventsOf(1, 0) # {}
  /\ EventsOf(2, 0) = {}

\* flow p, a service call, goes round the while loop of its policy
LoopsInPolicy(p) ==
  /\ procs[p].kind = "service"
  /\ procs[p].pc \in InStep
  /\ procs'[p].pc = "create"
  /\ procs'[p].policy = procs[p].policy

\* C29: the step a service call is about to run or is running lies in the
\* policy's step list and outside processed_steps, and processed_steps lies
\* in the step list, so the steps run in the policy by the call, the current
\* one included, never outnumber the policy's steps; an iteration that does
\* not leave the policy adds exactly the step it ran, which was not in
\* processed_steps before, whether the step completed or failed
C29_PolicyLoopTerminates ==
  /\ [](\A p \in Procs :
          (procs[p].kind = "service" /\ procs[p].pc \in {"create"} \cup InStep) =>
            LET n == Len(policies[procs[p].policy].steps)
            IN /\ procs[p].step_index \in 0..(n - 1)
               /\ procs[p].step_index \notin procs[p].processed_steps
               /\ procs[p].processed_steps \subseteq 0..(n - 1)
               /\ Cardinality(procs[p].processed_steps) + 1 <= n)
  /\ [][\A p \in Procs :
          LoopsInPolicy(p) =>
            /\ procs'[p].processed_steps = procs[p].processed_steps \cup {procs[p].step_index}
            /\ Cardinality(procs'[p].processed_steps)
                 = Cardinality(procs[p].processed_steps) + 1]_vars

\* a service call stands before the insert for step 1 after its step 0 failed
C29_Witness ==
  /\ procs[1].kind = "service"
  /\ procs[1].pc = "create"
  /\ procs[1].policy = 1
  /\ procs[1].processed_steps = {0}
  /\ procs[1].step_index = 1
  /\ \E e \in EventsOf(1, 0) : events[e].status = "failed"
  /\ calls = 1

PendingEvents == {i \in DOMAIN events : events[i].status = "pending"}

\* C30: a pending event belongs to a call that is running its step, so a
\* call that has returned left no event pending; completed and failed events,
\* and only they, have completed_at set; and while the call keeps running a
\* pending event becomes completed or failed
C30_NoEventLeftPending ==
  /\ [](\A i \in DOMAIN events :
          /\ i \in PendingEvents =>
               \E p \in Procs : procs[p].pc \in InStep /\ procs[p].event = i
          /\ events[i].completed_at <=> events[i].status \in {"completed", "failed"})
  /\ (PendingEvents # {}) ~> (PendingEvents = {})

\* the call has returned; one of its events completed and one failed
C30_Witness ==
  /\ procs[1].pc = "idle"
  /\ calls = 1
  /\ PendingEvents = {}
  /\ \E i \in DOMAIN events : events[i].status = "completed" /\ events[i].completed_at
  /\ \E i \in DOMAIN events : events[i].status = "failed" /\ events[i].completed_at

====
